---- MODULE Spec2Model ----
(***************************************************************************)
(* A model of the BUUCTF agent: the session memory (agent/memory.py), the  *)
(* response normaliser and the step orchestration loop                     *)
(* (agent/solve_agent.py), the analyzer (agent/analyzer.py) and the JSON   *)
(* repair loop (agent/utils.py).                                           *)
(*                                                                         *)
(* Python values are modelled as follows.                                  *)
(*   - a dict is a TLA+ function with a domain of strings;                 *)
(*   - a JSON value that is not an object is the dict-like value           *)
(*     [json_type |-> "list"] (it has no key the code looks for and every  *)
(*     dict method called on it raises AttributeError);                    *)
(*   - JSON true / false / null are the strings "true", "false", "null";   *)
(*   - a text whose length matters is [base, arg, len]: the first len      *)
(*     characters of the text base with arg formatted into it;             *)
(*   - a text handed to json.loads is [kind |-> "json", value |-> v]       *)
(*     (json.loads returns v), [kind |-> "garbage", raw |-> r]             *)
(*     (json.loads raises JSONDecodeError) or [kind |-> "deep"]            *)
(*     (nesting so deep that json.loads raises RecursionError);            *)
(*   - an exception is the name of its class, "None" when nothing was      *)
(*     raised.                                                             *)
(***************************************************************************)
EXTENDS Integers, Sequences, FiniteSets, TLC

VARIABLES
    memory,          \* the Memory object: history, compressed_memory, key_facts, failed_attempts
    mem_call,        \* the last call made on the Memory object and how it ended
    calls,           \* number of add_step calls made on the Memory object so far
    auto_mode,       \* SolveAgent.auto_mode
    pc,              \* where SolveAgent.solve stands
    step_count,      \* solve's step_count
    next_step,       \* solve's next_step
    output,          \* solve's output
    analysis_result, \* solve's analysis_result
    result,          \* what solve returned
    error,           \* the exception solve ended with
    repair,          \* the running call of fix_json_with_llm and who made it
    last_parse,      \* this turn's last call of parse_tool_response: its input and outcome
    confirm,         \* this turn's call of the flag-confirmation callback
    turn_memory,     \* the Memory object when this turn began
    dispatched,      \* solve's last dispatch: its turn, tool name and the tool's outcome
    fix_result,      \* this turn's last return of fix_json_with_llm: the text returned
    tool,            \* a tool object: its class, its mode and its SSH session
    tool_result      \* the calls of the tool's execute: their number, the last one's outcome

mem_vars == <<memory, mem_call, calls>>
solve_vars == <<auto_mode, pc, step_count, next_step, output, analysis_result,
                result, error, repair, last_parse, confirm, turn_memory,
                dispatched, fix_result>>
vars == <<memory, mem_call, calls, auto_mode, pc, step_count, next_step, output,
          analysis_result, result, error, repair, last_parse, confirm, turn_memory,
          dispatched, fix_result, tool, tool_result>>
tool_vars == <<tool, tool_result>>

(***************************************************************************)
(* Bounds of the model.                                                    *)
(***************************************************************************)
MaxThreshold == 5      \* compression_threshold ranges over 1..MaxThreshold
MaxCalls == 6          \* calls made on a Memory object in one behaviour
MaxBlocks == 3         \* no add_step once this many blocks are stored
MaxTurns == 2          \* turns of SolveAgent.solve in one behaviour
MaxRepairTries == 2    \* unparseable replies in one call of fix_json_with_llm
MaxToolCalls == 4      \* calls of execute on a tool object in one behaviour
MaxFindings == 11      \* add_step calls of a behaviour that collects findings
MaxScheduleThreshold == 7   \* compression_threshold ranges over 1..this in ScheduleSpec
MaxScheduleCalls == 11      \* add_step calls of one behaviour of ScheduleSpec
MaxDirs == 3           \* directories in the tree handed to upload_folder

(***************************************************************************)
(* Program constants.                                                      *)
(***************************************************************************)
KeepLast == 4                  \* memory.py:147
OutputSummaryLimit == 256      \* memory.py:51
EllipsisLen == 3               \* memory.py:52, len("...")

(***************************************************************************)
(* Python helpers.                                                         *)
(***************************************************************************)
Min(a, b) == IF a <= b THEN a ELSE b

EmptyDict == [k \in {} |-> "x"]

\* d.get(k, default)
DictGet(d, k, default) == IF k \in DOMAIN d THEN d[k] ELSE default

\* d.setdefault(k, v), as the dict it leaves behind
SetDefault(d, k, v) == IF k \in DOMAIN d THEN d ELSE d @@ (k :> v)

\* A parsed JSON value is a dict unless it carries the json_type marker.
IsDict(v) == "json_type" \notin DOMAIN v

\* Python truthiness of the JSON scalars used here
Truthy(v) == v \notin {"false", "null", "", "0"}

\* s[-n:] for n >= 1
LastN(s, n) == SubSeq(s, Len(s) - Min(n, Len(s)) + 1, Len(s))

\* s[:n]
FirstN(s, n) == SubSeq(s, 1, Min(n, Len(s)))

\* json_loads that takes only a JSON object for a document
json_loads_objects_only(text) ==
    CASE text.kind = "json" /\ "json_type" \notin DOMAIN text.value ->
                                  [exc |-> "None", value |-> text.value]
      [] text.kind = "json"    -> [exc |-> "JSONDecodeError"]
      [] text.kind = "garbage" -> [exc |-> "JSONDecodeError"]
      [] text.kind = "deep"    -> [exc |-> "RecursionError"]

\* json.loads(text)
json_loads(text) ==
    CASE text.kind = "json"    -> [exc |-> "None", value |-> text.value]
      [] text.kind = "garbage" -> [exc |-> "JSONDecodeError"]
      [] text.kind = "deep"    -> [exc |-> "RecursionError"]

(***************************************************************************)
(* Memory (agent/memory.py).  A Memory object is the record                *)
(*   [compression_threshold, history, compressed_memory, key_facts,        *)
(*    failed_attempts].                                                    *)
(* key_facts is a Python dict, which keeps insertion order: it is the      *)
(* sequence of its entries, and assigning to a key that is present keeps   *)
(* the entry's place.  failed_attempts is a function from the contents     *)
(* seen so far to their counts.                                            *)
(***************************************************************************)

\* Memory.__init__
NewMemory(threshold) ==
    [compression_threshold |-> threshold,
     history |-> <<>>,
     compressed_memory |-> <<>>,
     key_facts |-> <<>>,
     failed_attempts |-> EmptyDict]

\* key_facts[entry.key] = entry
FactSet(facts, entry) ==
    IF \E i \in 1..Len(facts) : facts[i].kind = entry.kind /\ facts[i].key = entry.key
    THEN [i \in 1..Len(facts) |->
            IF facts[i].kind = entry.kind /\ facts[i].key = entry.key
            THEN entry ELSE facts[i]]
    ELSE Append(facts, entry)

\* failed_attempts[k] = failed_attempts.get(k, 0) + 1
Increment(counters, k) ==
    IF k \in DOMAIN counters
    THEN [counters EXCEPT ![k] = @ + 1]
    ELSE counters @@ (k :> 1)

\* analysis texts with "key finding" in them, all different
FindingTexts ==
    << "key finding: port 21 open", "key finding: port 22 open",
       "key finding: port 80 open", "key finding: /admin exists",
       "key finding: /backup exists", "key finding: robots.txt lists /old",
       "key finding: PHP 5.6", "key finding: sqli in id",
       "key finding: admin user exists", "key finding: upload form",
       "key finding: LFI in page", "key finding: .git exposed",
       "key finding: debug mode on" >>

\* the texts of the model that contain "key finding" or "key findings",
\* whatever their case (analysis.lower())
ContainsKeyFinding(text) ==
    text \in {"key finding: admin panel", "KEY FINDINGS: sqli in id"}
                \cup { FindingTexts[i] : i \in 1..Len(FindingTexts) }

\* OutputSummary that adds the ellipsis and keeps the whole output
OutputSummaryUncut(out) ==
    [base |-> out.base, arg |-> out.arg,
     len |-> out.len,
     ellipsis |-> out.len > OutputSummaryLimit]

\* step["output"][:256] + ("..." if len(step["output"]) > 256 else "")
OutputSummary(out) ==
    [base |-> out.base, arg |-> out.arg,
     len |-> Min(out.len, OutputSummaryLimit),
     ellipsis |-> out.len > OutputSummaryLimit]

\* Memory._extract_key_facts, as the key_facts it leaves behind
extract_key_facts(facts, step) ==
    LET with_command ==
            IF "content" \in DOMAIN step /\ "output" \in DOMAIN step
            THEN FactSet(facts, [kind |-> "command", key |-> "command",
                                 command |-> step.content,
                                 result |-> OutputSummary(step.output)])
            ELSE facts
    IN  IF /\ "analysis" \in DOMAIN step
           /\ "analysis" \in DOMAIN step.analysis
           /\ ContainsKeyFinding(step.analysis.analysis)
        THEN FactSet(with_command, [kind |-> "finding", key |-> step.analysis.analysis,
                                    text |-> step.analysis.analysis])
        ELSE with_command

\* the failure-tracking lines of add_step
TrackFailure(counters, step) ==
    IF /\ "analysis" \in DOMAIN step
       /\ "success" \in DOMAIN step.analysis
       /\ ~Truthy(step.analysis.success)
    THEN Increment(counters, DictGet(step, "content", ""))
    ELSE counters

\* FoldAttempts that rebuilds the counters from the compaction's list
FoldAttemptsFromScratch(counters, attempts) ==
    [k \in {attempts[i] : i \in 1..Len(attempts)} |-> 1]

\* for attempt in compressed_data.get("failed_attempts", []): count it
RECURSIVE FoldAttempts(_, _)
FoldAttempts(counters, attempts) ==
    IF attempts = <<>> THEN counters
    ELSE FoldAttempts(Increment(counters, Head(attempts)), Tail(attempts))

\* compression_prompt embedding the records the truncation retains:
\* history[-keep_last:]
compression_prompt_retained(m) ==
    [key_facts |-> LastN(m.key_facts, 5),
     steps |-> LastN(m.history, KeepLast)]

\* what the compaction prompt embeds: the latest five key facts and
\* history[-compression_threshold:]
compression_prompt(m) ==
    [key_facts |-> LastN(m.key_facts, 5),
     steps |-> LastN(m.history, m.compression_threshold)]

\* The try block of compress_memory for the outcome llm of litellm.completion:
\* the exception the block ends with ("None" when it runs to its end),
\* whether response was bound, and the memory as the block leaves it.
CompressTry(m, llm) ==
    IF llm.kind = "raise"
    THEN [exc |-> llm.exc, bound |-> FALSE, mem |-> m]
    ELSE IF llm.kind = "no_content"      \* message.content is None: None.strip()
    THEN [exc |-> "AttributeError", bound |-> TRUE, mem |-> m]
    ELSE LET parsed == json_loads(llm.text) IN
         IF parsed.exc # "None"
         THEN [exc |-> parsed.exc, bound |-> TRUE, mem |-> m]
         ELSE IF ~IsDict(parsed.value)   \* compressed_data.get on a list
         THEN [exc |-> "AttributeError", bound |-> TRUE, mem |-> m]
         ELSE LET data == parsed.value
                  stamped == [k \in DOMAIN data \cup {"source_steps"} |->
                                 IF k = "source_steps" THEN Len(m.history) ELSE data[k]]
                  stored == [m EXCEPT
                      !.failed_attempts =
                          FoldAttempts(@, DictGet(data, "failed_attempts", <<>>)),
                      !.compressed_memory = Append(@, stamped)]
              IN  \* the print of len(compressed_data['key_findings']) comes last
                  IF "key_findings" \in DOMAIN data
                  THEN [exc |-> "None", bound |-> TRUE, mem |-> stored]
                  ELSE [exc |-> "KeyError", bound |-> TRUE, mem |-> stored]

\* ExceptClause with the two clauses merged into the catch-all
ExceptClauseOnlyCatchAll(exc) ==
    CASE exc = "None" -> "none"
      [] OTHER -> "error"

\* ExceptClause without the catch-all clause: other exceptions leave
\* compress_memory
ExceptClauseNoCatchAll(exc) ==
    CASE exc = "None" -> "none"
      [] exc \in {"JSONDecodeError", "KeyError"} -> "fallback"
      [] OTHER -> "propagate"

\* which except clause of compress_memory takes an exception
ExceptClause(exc) ==
    CASE exc = "None" -> "none"
      [] exc \in {"JSONDecodeError", "KeyError"} -> "fallback"
      [] OTHER -> "error"

\* Retain without the truncation
RetainEverything(history) == history

\* Retain keeping the oldest records: history[:keep_last]
RetainOldest(history) == FirstN(history, Min(KeepLast, Len(history)))

\* Retain keeping one record fewer: history[-min(3, len(history)):]
RetainLastThree(history) == LastN(history, Min(KeepLast - 1, Len(history)))

\* Retain emptying the active history: self.history = []
RetainNothing(history) == <<>>

\* history[-min(4, len(history)):]
Retain(history) == LastN(history, Min(KeepLast, Len(history)))

\* compress_memory keeping only the latest block: compressed_memory[-1:]
compress_memory_latest_block(m, llm) ==
    IF m.history = <<>> THEN [mem |-> m, exc |-> "None"]
    ELSE
    LET t == CompressTry(m, llm)
        clause == ExceptClause(t.exc)
        n == Len(t.mem.history)
        fallback == IF t.bound THEN llm.text
                    ELSE [kind |-> "literal", raw |-> "Compression failed"]
        handled ==
            CASE clause = "fallback" ->
                    [t.mem EXCEPT !.compressed_memory =
                        Append(@, [fallback_summary |-> fallback, source_steps |-> n])]
              [] clause = "error" ->
                    [t.mem EXCEPT !.compressed_memory =
                        Append(@, [error |-> t.exc, source_steps |-> n])]
              [] OTHER -> t.mem
    IN  IF clause = "propagate"
        THEN [mem |-> t.mem, exc |-> t.exc]
        ELSE [mem |-> [handled EXCEPT !.history = Retain(@),
                                      !.compressed_memory = LastN(@, 1)],
              exc |-> "None"]

\* Memory.compress_memory: [mem, exc], with exc the exception it raises
compress_memory(m, llm) ==
    IF m.history = <<>> THEN [mem |-> m, exc |-> "None"]
    ELSE
    LET t == CompressTry(m, llm)
        clause == ExceptClause(t.exc)
        n == Len(t.mem.history)
        fallback == IF t.bound THEN llm.text
                    ELSE [kind |-> "literal", raw |-> "Compression failed"]
        handled ==
            CASE clause = "fallback" ->
                    [t.mem EXCEPT !.compressed_memory =
                        Append(@, [fallback_summary |-> fallback, source_steps |-> n])]
              [] clause = "error" ->
                    [t.mem EXCEPT !.compressed_memory =
                        Append(@, [error |-> t.exc, source_steps |-> n])]
              [] OTHER -> t.mem
    IN  IF clause = "propagate"
        THEN [mem |-> t.mem, exc |-> t.exc]
        ELSE [mem |-> [handled EXCEPT !.history = Retain(@)], exc |-> "None"]

\* NeedsCompression with > for >=
NeedsCompressionWhenAbove(m) == Len(m.history) > m.compression_threshold

\* len(self.history) >= self.compression_threshold
NeedsCompression(m) == Len(m.history) >= m.compression_threshold

\* Memory.add_step: [mem, exc, compressed, prompted], with prompted the
\* records the compaction embedded in its prompt
add_step(m, step, llm) ==
    LET added == [m EXCEPT
            !.history = Append(@, step),
            !.key_facts = extract_key_facts(@, step),
            !.failed_attempts = TrackFailure(@, step)]
    IN  IF NeedsCompression(added)
        THEN LET c == compress_memory(added, llm)
             IN  [mem |-> c.mem, exc |-> c.exc, compressed |-> TRUE,
                  prompted |-> compression_prompt(added).steps]
        ELSE [mem |-> added, exc |-> "None", compressed |-> FALSE,
              prompted |-> <<>>]

(***************************************************************************)
(* get_summary.  The text it returns is the sequence of its parts; the     *)
(* sentinel "No history" is the one-part text NoHistory.                   *)
(***************************************************************************)
RECURSIVE Flatten(_)
Flatten(seqs) == IF seqs = <<>> THEN <<>> ELSE Head(seqs) \o Flatten(Tail(seqs))

NoHistory == <<[part |-> "No history"]>>

SummaryBlocksShown == 3        \* memory.py:164
SummaryFactsShown == 10        \* memory.py:157
SummaryOutputLimit == 512      \* memory.py:198

\* section 1 of get_summary: the key facts
SummaryFacts(m, include_key_facts) ==
    IF include_key_facts /\ m.key_facts # <<>>
    THEN <<[part |-> "Key facts:"]>>
         \o [i \in 1..Len(LastN(m.key_facts, SummaryFactsShown)) |->
                [part |-> "fact", fact |-> LastN(m.key_facts, SummaryFactsShown)[i]]]
    ELSE <<>>

\* mem['next_steps'][0] raises IndexError on an empty list
BlockRaises(block) ==
    "next_steps" \in DOMAIN block /\ Len(block.next_steps) = 0

\* the parts get_summary renders for one block, shown as number `label`
SummaryBlock(block, label) ==
    <<[part |-> "Block #", number |-> label]>>
    \o (IF "key_findings" \in DOMAIN block
        THEN <<[part |-> "Status", status |-> DictGet(block, "current_status", "unknown")],
               [part |-> "Key findings",
                shown |-> FirstN(block.key_findings, 3),
                more |-> IF Len(block.key_findings) > 3
                         THEN Len(block.key_findings) - 3 ELSE 0]>>
        ELSE <<>>)
    \o (IF "failed_attempts" \in DOMAIN block
        THEN <<[part |-> "Failed attempts",
                shown |-> FirstN(block.failed_attempts, 3),
                more |-> IF Len(block.failed_attempts) > 3
                         THEN Len(block.failed_attempts) - 3 ELSE 0]>>
        ELSE <<>>)
    \o (IF "next_steps" \in DOMAIN block /\ Len(block.next_steps) > 0
        THEN <<[part |-> "Suggested next step", next |-> block.next_steps[1]]>>
        ELSE <<>>)
    \o <<[part |-> "Source", steps |-> block.source_steps]>>

\* section 2 of get_summary: the latest three blocks; the i-th of them
\* (from 0) is labelled len(compressed_memory) - i
SummaryBlocks(m) ==
    LET shown == LastN(m.compressed_memory, SummaryBlocksShown) IN
    IF m.compressed_memory = <<>> THEN <<>>
    ELSE <<[part |-> "Compressed memory blocks:"]>>
         \o Flatten([i \in 1..Len(shown) |->
                SummaryBlock(shown[i], Len(m.compressed_memory) - (i - 1))])

\* the parts get_summary renders for the i-th record (from 1) of the history
SummaryStep(m, i) ==
    LET step == m.history[i] IN
    <<[part |-> "Step", number |-> Len(m.history) - (i - 1)],
      [part |-> "Purpose", purpose |-> DictGet(step, "purpose", "unspecified")],
      [part |-> "Command", command |-> step.content]>>
    \o (IF "output" \in DOMAIN step
        THEN <<[part |-> "Output",
                output |-> [base |-> step.output.base, arg |-> step.output.arg,
                            len |-> Min(step.output.len, SummaryOutputLimit),
                            ellipsis |-> step.output.len > SummaryOutputLimit]]>>
        ELSE <<>>)
    \o (IF "analysis" \in DOMAIN step
        THEN <<[part |-> "Analysis",
                analysis |-> DictGet(step.analysis, "analysis", "No analysis")]>>
        ELSE <<>>)
    \o (IF "content" \in DOMAIN step /\ step.content \in DOMAIN m.failed_attempts
        THEN <<[part |-> "Historical failure count",
                count |-> m.failed_attempts[step.content]]>>
        ELSE <<>>)

\* section 3 of get_summary: every record of the active history
SummarySteps(m) ==
    IF m.history = <<>> THEN <<>>
    ELSE <<[part |-> "Recent detailed steps:"]>>
         \o Flatten([i \in 1..Len(m.history) |-> SummaryStep(m, i)])

\* Memory.get_summary: [exc, text]
get_summary(m, include_key_facts) ==
    IF \E i \in 1..Len(LastN(m.compressed_memory, SummaryBlocksShown)) :
            BlockRaises(LastN(m.compressed_memory, SummaryBlocksShown)[i])
    THEN [exc |-> "IndexError", text |-> <<>>]
    ELSE LET summary == SummaryFacts(m, include_key_facts)
                        \o SummaryBlocks(m) \o SummarySteps(m)
         IN  [exc |-> "None",
              text |-> IF summary = <<>> THEN NoHistory ELSE summary]

(***************************************************************************)
(* The inputs of the model.                                                *)
(***************************************************************************)

\* outputs of a tool, by length: short, just at the key-fact limit, and longer
ShortOutput == [base |-> "uid=0(root)", arg |-> "", len |-> 11]
LongOutput == [base |-> "<html>...", arg |-> "", len |-> 300]

\* the step records handed to add_step as the n-th call on a Memory
StepRecords(n) ==
    { [step |-> n, purpose |-> "list files", content |-> "ls -la",
       output |-> ShortOutput,
       analysis |-> [analysis |-> "nothing new", success |-> "false"]],
      [step |-> n, purpose |-> "fetch page", content |-> "curl http://target/",
       output |-> LongOutput,
       analysis |-> [analysis |-> "key finding: admin panel", success |-> "true"]] }

GoodBlock ==
    [key_findings |-> <<"admin panel">>, failed_attempts |-> <<"ls -la">>,
     current_status |-> "enumerating", next_steps |-> <<"try sqlmap">>]

\* the outcomes of the litellm.completion call of compress_memory
CompactionReplies ==
    { [kind |-> "raise", exc |-> "APIConnectionError"],
      [kind |-> "raise", exc |-> "KeyError"],
      [kind |-> "text", text |-> [kind |-> "garbage", raw |-> "Here is the summary"]],
      [kind |-> "text", text |-> [kind |-> "json", value |-> [json_type |-> "list"]]],
      [kind |-> "text", text |-> [kind |-> "json", value |-> GoodBlock]],
      [kind |-> "text", text |-> [kind |-> "json", value |->
            [key_findings |-> <<>>, failed_attempts |-> <<>>,
             current_status |-> "stuck", next_steps |-> <<>>]]],
      [kind |-> "text", text |-> [kind |-> "json", value |->
            [current_status |-> "enumerating"]]] }

(***************************************************************************)
(* MemSpec: a Memory object driven directly by its callers.                *)
(***************************************************************************)
NoneValue == [json_type |-> "None"]      \* Python's None where a dict is expected
Unbound == [json_type |-> "unbound"]     \* a local variable not assigned yet
NoRepair == [for |-> "none"]
NoParse == [called |-> FALSE]
NoConfirm == [asked |-> FALSE]
NoDispatch == [ran |-> FALSE]
NoFix == [returned |-> FALSE]
NoToolCall == [count |-> 0]

\* SSHShell.__init__ and PythonTool.__init__ once they have returned: the
\* session is connected, or there is none when the code runs locally
NewTool(class, remote) ==
    [class |-> class, remote |-> remote,
     session |-> IF remote THEN "active" ELSE "none"]

MemInit ==
    /\ memory \in { NewMemory(t) : t \in 1..MaxThreshold }
    /\ mem_call = [op |-> "init", exc |-> "None"]
    /\ calls = 0
    /\ auto_mode = TRUE
    /\ pc = "idle"
    /\ step_count = 0
    /\ next_step = NoneValue
    /\ output = [base |-> "", arg |-> "", len |-> 0]
    /\ analysis_result = Unbound
    /\ result = "None"
    /\ error = "None"
    /\ repair = NoRepair
    /\ last_parse = NoParse
    /\ confirm = NoConfirm
    /\ turn_memory = memory
    /\ dispatched = NoDispatch
    /\ fix_result = NoFix
    /\ tool = NewTool("SSHShell", TRUE)
    /\ tool_result = NoToolCall

\* what a call that may compact leaves in mem_call: the call's outcome, the
\* completion outcome it consumed, the step numbers of the records its
\* prompt embedded, and the sizes before it
CallRecord(m, r, llm) ==
    [op |-> "add_step", exc |-> r.exc, compressed |-> r.compressed,
     prompted |-> [i \in 1..Len(r.prompted) |-> r.prompted[i].step],
     llm |-> IF r.compressed THEN llm ELSE [kind |-> "unused"],
     pre_len |-> Len(m.history) + 1,
     pre_blocks |-> Len(m.compressed_memory)]

\* one add_step call
MemAddStep ==
    /\ calls < MaxCalls
    /\ Len(memory.compressed_memory) < MaxBlocks
    /\ \E step \in StepRecords(calls + 1), llm \in CompactionReplies :
          LET r == add_step(memory, step, llm) IN
          /\ memory' = r.mem
          /\ mem_call' = CallRecord(memory, r, llm)
    /\ calls' = calls + 1
    /\ UNCHANGED solve_vars
    /\ UNCHANGED tool_vars

\* one get_summary call
MemGetSummary ==
    /\ LET r == get_summary(memory, TRUE) IN
          mem_call' = [op |-> "get_summary", exc |-> r.exc,
                       no_history |-> r.text = NoHistory]
    /\ UNCHANGED <<memory, calls>>
    /\ UNCHANGED solve_vars
    /\ UNCHANGED tool_vars

MemNext == MemAddStep \/ MemGetSummary

MemSpec == MemInit /\ [][MemNext]_vars

(***************************************************************************)
(* The response normaliser: SolveAgent.parse_tool_response                 *)
(* (agent/solve_agent.py).  A ModelResponse is                             *)
(*   [tool_calls |-> a sequence of [name, arguments], content |-> a text]  *)
(* with arguments a text and content possibly None.  The outcome of the    *)
(* normaliser is [kind |-> "return", value], [kind |-> "raise", exc] or,   *)
(* when it calls utils.fix_json_with_llm, [kind |-> "repair", which,       *)
(* func_name]; AfterRepair is the rest of the function once the repair     *)
(* has returned the text fixed.                                            *)
(***************************************************************************)
NoneText == [kind |-> "None"]

\* FillDefaults by assignment: args["purpose"] = ...; args["content"] = ""
FillDefaultsOverwriting(args) ==
    [k \in DOMAIN args \cup {"purpose", "content"} |->
        CASE k = "purpose" -> "Execute action"
          [] k = "content" -> ""
          [] OTHER -> args[k]]

\* args.setdefault("purpose", "Execute action"); args.setdefault("content", "")
FillDefaults(args) ==
    SetDefault(SetDefault(args, "purpose", "Execute action"), "content", "")

\* the lines after both cases: the log lines and the returned record
Canonical(func_name, args) ==
    [kind |-> "return", value |-> [tool_name |-> func_name, arguments |-> args]]

\* case 1 from args on: the setdefault calls and the return
FromArguments(func_name, args) ==
    IF IsDict(args)
    THEN Canonical(func_name, FillDefaults(args))
    ELSE [kind |-> "raise", exc |-> "AttributeError"]

\* case 2 from data on: if "tool_calls" in data and data["tool_calls"], take
\* the first entry; otherwise func_name is unbound at the log line
FromDocument(data) ==
    IF "tool_calls" \in DOMAIN data /\ data.tool_calls # <<>>
    THEN LET tool_call == data.tool_calls[1] IN
         Canonical(DictGet(tool_call, "name", "tool_parse_failed"),
                   FillDefaults(DictGet(tool_call, "arguments", EmptyDict)))
    ELSE [kind |-> "raise", exc |-> "UnboundLocalError"]

\* SolveAgent.parse_tool_response up to its return, its raise or its call of
\* the repair
parse_tool_response(response) ==
    IF response.tool_calls # <<>>
    THEN LET tool_call == response.tool_calls[1]
             parsed == IF tool_call.arguments = NoneText
                       THEN [exc |-> "TypeError"]
                       ELSE json_loads(tool_call.arguments)
         IN  CASE parsed.exc = "None" -> FromArguments(tool_call.name, parsed.value)
               [] parsed.exc = "JSONDecodeError" ->
                     [kind |-> "repair", which |-> "arguments",
                      func_name |-> tool_call.name]
               [] OTHER -> [kind |-> "raise", exc |-> parsed.exc]
    ELSE IF response.content = NoneText      \* None.strip()
    THEN [kind |-> "raise", exc |-> "AttributeError"]
    ELSE LET parsed == json_loads(response.content) IN
         CASE parsed.exc = "None" -> FromDocument(parsed.value)
           [] parsed.exc = "JSONDecodeError" ->
                 [kind |-> "repair", which |-> "content", func_name |-> "unbound"]
           [] OTHER -> [kind |-> "return", value |-> EmptyDict]

\* the rest of parse_tool_response once fix_json_with_llm has returned fixed:
\* case 1 binds args to the returned string, case 2 parses it
AfterRepair(which, func_name, fixed) ==
    IF which = "arguments"
    THEN [kind |-> "raise", exc |-> "AttributeError"]    \* str has no setdefault
    ELSE LET parsed == json_loads(fixed) IN               \* data = json.loads(content)
         IF parsed.exc # "None"
         THEN [kind |-> "raise", exc |-> parsed.exc]
         ELSE FromDocument(parsed.value)

(***************************************************************************)
(* The step orchestrator: SolveAgent.solve and what it calls               *)
(* (agent/solve_agent.py, agent/analyzer.py, agent/utils.py,               *)
(* agent/workflow.py).  solve stands at one of its blocking calls:         *)
(*   "generating"  about to call generate_next_step                        *)
(*   "approval"    in manual_approval_step, waiting for the user's choice  *)
(*   "executing"   about to dispatch the action to its tool                *)
(*   "analyzing"   about to call Analyzer.analyze_step_output              *)
(*   "confirming"  in the flag-confirmation callback, waiting for y or n   *)
(*   "repair"      in the loop of fix_json_with_llm                        *)
(*   "done"        returned (result), "raised" ended by an exception       *)
(*                 (error)                                                 *)
(***************************************************************************)
DefaultThreshold == 5          \* solve_agent.py:38

\* the compression_threshold values solve is run with: compaction on every
\* step, and the default
SolveThresholds == {1, DefaultThreshold}

\* the names in SolveAgent.tools
Tools == {"execute_shell_command", "execute_python_code"}

ShellArgs == [purpose |-> "list files", content |-> "ls -la"]

\* the document a free-text reply carries when it names a tool
ToolDocument ==
    [tool_calls |-> <<[name |-> "nmap_scan", arguments |-> EmptyDict]>>]

GarbageText == [kind |-> "garbage", raw |-> "Sure! Here is the JSON"]
JsonText(v) == [kind |-> "json", value |-> v]

\* the outcomes of a litellm.completion call that asks for an action
ActionReplies ==
    { [kind |-> "raise", exc |-> "APIConnectionError"] } \cup
    { [kind |-> "response", response |-> r] : r \in
        { \* direct structured invocations
          [tool_calls |-> <<[name |-> "execute_shell_command",
                             arguments |-> JsonText(ShellArgs)]>>,
           content |-> NoneText],
          [tool_calls |-> <<[name |-> "execute_shell_command",
                             arguments |-> GarbageText]>>,
           content |-> NoneText],
          [tool_calls |-> <<[name |-> "execute_shell_command",
                             arguments |-> JsonText([json_type |-> "list"])]>>,
           content |-> NoneText],
          \* free-text replies
          [tool_calls |-> <<>>, content |-> JsonText(ToolDocument)],
          [tool_calls |-> <<>>, content |-> JsonText([tool_calls |-> <<>>])],
          [tool_calls |-> <<>>, content |-> JsonText([thought |-> "let me think"])],
          [tool_calls |-> <<>>, content |-> GarbageText],
          [tool_calls |-> <<>>, content |-> [kind |-> "deep"]],
          [tool_calls |-> <<>>, content |-> NoneText] } }

\* the outcomes of the litellm.completion call of fix_json_with_llm
RepairReplies ==
    { [kind |-> "raise", exc |-> "APIConnectionError"],
      [kind |-> "text", text |-> GarbageText],
      [kind |-> "text", text |-> JsonText(ToolDocument)],
      [kind |-> "text", text |-> JsonText([json_type |-> "list"])] }

\* the outcomes of the litellm.completion call of analyze_step_output
AnalysisReplies ==
    { [kind |-> "raise", exc |-> "APIConnectionError"],
      [kind |-> "text", text |-> GarbageText],
      [kind |-> "text", text |-> JsonText([json_type |-> "list"])],
      [kind |-> "text", text |->
            JsonText([analysis |-> "nothing new", success |-> "false"])],
      [kind |-> "text", text |->
            JsonText([analysis |-> "key finding: admin panel", success |-> "true",
                      flag_found |-> "true", flag |-> "flag{a}",
                      terminate |-> "false"])],
      [kind |-> "text", text |->
            JsonText([analysis |-> "dead end", success |-> "false",
                      flag_found |-> "false", terminate |-> "true"])],
      [kind |-> "text", text |->
            JsonText([analysis |-> "looks like the flag", success |-> "true",
                      flag_found |-> "true", flag |-> "flag{b}",
                      terminate |-> "true"])] }

\* the outcomes of the compaction call when solve drives the memory
SolveCompactionReplies ==
    { [kind |-> "raise", exc |-> "APIConnectionError"],
      [kind |-> "text", text |-> [kind |-> "json", value |-> GoodBlock]],
      [kind |-> "text", text |-> [kind |-> "json", value |->
            [key_findings |-> <<>>, failed_attempts |-> <<>>,
             current_status |-> "stuck", next_steps |-> <<>>]]] }

\* the outcomes of tool.execute(arguments)
ToolOutcomes ==
    { [kind |-> "return", stdout |-> ShortOutput],
      [kind |-> "raise", message |-> "timed out"] }

\* Analyzer.analyze_step_output from the completion's outcome on:
\* [kind |-> "return", value], [kind |-> "raise", exc] or [kind |-> "repair"]
analyze_step_output(summary, llm) ==
    IF summary.exc # "None" THEN [kind |-> "raise", exc |-> summary.exc]
    ELSE IF llm.kind = "raise" THEN [kind |-> "raise", exc |-> llm.exc]
    ELSE IF llm.text = NoneText THEN [kind |-> "raise", exc |-> "TypeError"]
    ELSE LET parsed == json_loads(llm.text) IN
         CASE parsed.exc = "None" ->
                 [kind |-> "return",
                  value |-> IF IsDict(parsed.value) THEN parsed.value ELSE NoneValue]
           [] parsed.exc \in {"JSONDecodeError", "KeyError"} ->
                 [kind |-> "repair", which |-> "analysis", func_name |-> "unbound"]
           [] OTHER -> [kind |-> "raise", exc |-> parsed.exc]

\* generate_next_step and reflection: the summary, the completion, the parse
request_action(summary, llm) ==
    IF summary.exc # "None" THEN [kind |-> "raise", exc |-> summary.exc]
    ELSE IF llm.kind = "raise" THEN [kind |-> "raise", exc |-> llm.exc]
    ELSE parse_tool_response(llm.response)

\* the retry loop of solve (while next_step is None) goes round again
RetryGeneration(step) == step = NoneValue

\* len() of the texts the model formats into an output
TextLen(t) ==
    CASE t = "timed out" -> 9
      [] t = "nmap_scan" -> 9
      [] t = "None" -> 4
      [] OTHER -> 0

\* the output of the dispatch of solve
Dispatch(tool_name, outcome) ==
    IF tool_name \in Tools
    THEN IF outcome.kind = "return"
         THEN outcome.stdout
         ELSE [base |-> "Tool execution error: ", arg |-> outcome.message,
               len |-> 22 + TextLen(outcome.message)]
    ELSE [base |-> "Error: tool '' was not found", arg |-> tool_name,
          len |-> 28 + TextLen(tool_name)]

(***************************************************************************)
(* The actions of solve.                                                   *)
(***************************************************************************)
SolveInit ==
    /\ memory \in { NewMemory(t) : t \in SolveThresholds }
    /\ mem_call = [op |-> "init", exc |-> "None"]
    /\ calls = 0
    /\ auto_mode \in BOOLEAN
    /\ pc = "generating"
    /\ step_count = 1
    /\ next_step = NoneValue
    /\ output = [base |-> "", arg |-> "", len |-> 0]
    /\ analysis_result = Unbound
    /\ result = "None"
    /\ error = "None"
    /\ repair = NoRepair
    /\ last_parse = NoParse
    /\ confirm = NoConfirm
    /\ turn_memory = memory
    /\ dispatched = NoDispatch
    /\ fix_result = NoFix
    /\ tool = NewTool("SSHShell", TRUE)
    /\ tool_result = NoToolCall

\* solve ends by the exception exc
Raise(exc) ==
    /\ pc' = "raised"
    /\ error' = exc
    /\ UNCHANGED result

\* solve returns value
Return(value) ==
    /\ pc' = "done"
    /\ result' = value
    /\ UNCHANGED error

\* what a call of parse_tool_response leaves in last_parse
ParseRecord(response, outcome, repaired) ==
    [called |-> TRUE, response |-> response, outcome |-> outcome,
     repaired |-> repaired]

\* Proposed going to the dispatch in both modes
ProposedToDispatch(step) ==
    /\ next_step' = step
    /\ pc' = "executing"
    /\ UNCHANGED <<result, error>>

\* solve from the end of the generation loop on: to the approval in manual
\* mode, to the dispatch otherwise
Proposed(step) ==
    /\ next_step' = step
    /\ pc' = IF auto_mode THEN "executing" ELSE "approval"
    /\ UNCHANGED <<result, error>>

\* An action was asked for (by solve's generation loop or by reflection) and
\* request_action ended with outcome.
Requested(caller, outcome) ==
    CASE outcome.kind = "raise" ->
            /\ Raise(outcome.exc)
            /\ UNCHANGED <<next_step, repair>>
      [] outcome.kind = "repair" ->
            /\ pc' = "repair"
            /\ repair' = [for |-> caller, which |-> outcome.which,
                          func_name |-> outcome.func_name, tries |-> 0]
            /\ UNCHANGED <<next_step, result, error>>
      [] outcome.kind = "return" /\ caller = "generate" ->
            /\ IF RetryGeneration(outcome.value)
               THEN /\ pc' = "generating"
                    /\ UNCHANGED <<next_step, result, error>>
               ELSE Proposed(outcome.value)
            /\ repair' = NoRepair
      [] outcome.kind = "return" /\ caller = "reflect" ->
            /\ next_step' = outcome.value
            /\ pc' = "approval"
            /\ repair' = NoRepair
            /\ UNCHANGED <<result, error>>

\* solve calls generate_next_step
Generate ==
    /\ pc = "generating"
    /\ step_count <= MaxTurns
    /\ \E llm \in ActionReplies :
          LET outcome == request_action(get_summary(memory, TRUE), llm) IN
          /\ Requested("generate", outcome)
          /\ last_parse' = IF llm.kind = "response"
                              /\ get_summary(memory, TRUE).exc = "None"
                           THEN ParseRecord(llm.response, outcome, FALSE)
                           ELSE last_parse
    /\ UNCHANGED <<memory, mem_call, calls, auto_mode, step_count, output,
                   analysis_result, confirm, turn_memory, dispatched>>
    /\ fix_result' = NoFix      \* no repair has returned in this turn yet
    /\ UNCHANGED tool_vars

\* solve's tool_name, arguments and content, read off next_step
ToolName(step) == DictGet(step, "tool_name", "None")
Arguments(step) == DictGet(step, "arguments", EmptyDict)
Content(step) == DictGet(Arguments(step), "content", "")

\* analysis_result.get("flag_found", False) taken for the presence of the key
FlagReportedIfKeyPresent(analysis) == "flag_found" \in DOMAIN analysis

\* if analysis_result.get("flag_found", False)
FlagReported(analysis) == Truthy(DictGet(analysis, "flag_found", "false"))

\* analysis_result.get("flag", "")
FlagCandidate(analysis) == DictGet(analysis, "flag", "")

\* if analysis_result.get("terminate", False)
TerminateAdvised(analysis) == Truthy(DictGet(analysis, "terminate", "false"))

\* the record solve hands to add_step
StepRecord(analysis) ==
    [step |-> step_count,
     purpose |-> DictGet(Arguments(next_step), "purpose", "unspecified"),
     content |-> Content(next_step),
     output |-> output,
     analysis |-> analysis]

\* Record with the memory write skipped for a turn whose flag was rejected
RecordUnlessRejected(analysis, compaction) ==
    LET r == IF FlagReported(analysis)
             THEN [mem |-> memory, exc |-> "None", compressed |-> FALSE,
                   prompted |-> <<>>]
             ELSE add_step(memory, StepRecord(analysis), compaction) IN
    /\ memory' = r.mem
    /\ IF FlagReported(analysis)
       THEN UNCHANGED <<mem_call, calls>>
       ELSE /\ mem_call' = CallRecord(memory, r, compaction)
            /\ calls' = calls + 1
    /\ IF r.exc # "None"
       THEN /\ Raise(r.exc)
            /\ UNCHANGED <<step_count, next_step, last_parse, turn_memory>>
       ELSE IF TerminateAdvised(analysis)
       THEN /\ Return("Flag not found: terminated early")
            /\ UNCHANGED <<step_count, next_step, last_parse, turn_memory>>
       ELSE /\ pc' = "generating"
            /\ step_count' = step_count + 1
            /\ next_step' = NoneValue
            /\ last_parse' = NoParse
            /\ turn_memory' = r.mem
            /\ UNCHANGED <<result, error>>

\* Record with the terminate check made before the memory write
RecordAfterTerminateCheck(analysis, compaction) ==
    LET r == add_step(memory, StepRecord(analysis), compaction) IN
    IF TerminateAdvised(analysis)
    THEN /\ Return("Flag not found: terminated early")
         /\ UNCHANGED <<memory, mem_call, calls, step_count, next_step,
                        last_parse, turn_memory>>
    ELSE /\ memory' = r.mem
         /\ mem_call' = CallRecord(memory, r, compaction)
         /\ calls' = calls + 1
         /\ pc' = "generating"
         /\ step_count' = step_count + 1
         /\ next_step' = NoneValue
         /\ last_parse' = NoParse
         /\ turn_memory' = r.mem
         /\ UNCHANGED <<result, error>>

\* solve from the memory write on: add_step, then the terminate check
Record(analysis, compaction) ==
    LET r == add_step(memory, StepRecord(analysis), compaction) IN
    /\ memory' = r.mem
    /\ mem_call' = CallRecord(memory, r, compaction)
    /\ calls' = calls + 1
    /\ IF r.exc # "None"
       THEN /\ Raise(r.exc)
            /\ UNCHANGED <<step_count, next_step, last_parse, turn_memory>>
       ELSE IF TerminateAdvised(analysis)
       THEN /\ Return("Flag not found: terminated early")
            /\ UNCHANGED <<step_count, next_step, last_parse, turn_memory>>
       ELSE /\ pc' = "generating"
            /\ step_count' = step_count + 1
            /\ next_step' = NoneValue
            /\ last_parse' = NoParse
            /\ turn_memory' = r.mem
            /\ UNCHANGED <<result, error>>

\* solve from the flag check on, with the analysis it was handed
Analysed(analysis, compaction) ==
    /\ analysis_result' = analysis
    /\ IF ~IsDict(analysis)              \* analysis_result.get on None or a list
       THEN /\ Raise("AttributeError")
            /\ confirm' = NoConfirm
            /\ UNCHANGED <<memory, mem_call, calls, step_count, next_step,
                           last_parse, turn_memory>>
       ELSE IF FlagReported(analysis)
       THEN /\ pc' = "confirming"
            /\ confirm' = [asked |-> TRUE, candidate |-> FlagCandidate(analysis),
                           answer |-> "pending"]
            /\ UNCHANGED <<memory, mem_call, calls, step_count, next_step,
                           last_parse, turn_memory, result, error>>
       ELSE /\ confirm' = NoConfirm
            /\ Record(analysis, compaction)

\* manual_approval_step: one choice of the user
ManualApproval ==
    /\ pc = "approval"
    /\ \E choice \in {"1", "2", "3", "?"}, llm \in ActionReplies :
          CASE choice = "1" ->
                  /\ pc' = "executing"
                  /\ UNCHANGED <<next_step, result, error, repair, last_parse>>
            [] choice = "2" ->
                  LET outcome == request_action(get_summary(memory, TRUE), llm) IN
                  /\ Requested("reflect", outcome)
                  /\ last_parse' = IF llm.kind = "response"
                                      /\ get_summary(memory, TRUE).exc = "None"
                                   THEN ParseRecord(llm.response, outcome, FALSE)
                                   ELSE last_parse
            [] choice = "3" ->
                  /\ Return("Solving aborted")
                  /\ UNCHANGED <<next_step, repair, last_parse>>
            [] OTHER ->
                  UNCHANGED <<pc, next_step, result, error, repair, last_parse>>
    /\ UNCHANGED <<memory, mem_call, calls, auto_mode, step_count, output,
                   analysis_result, confirm, turn_memory, dispatched,
                   fix_result>>
    /\ UNCHANGED tool_vars

\* what a dispatch leaves in dispatched: the turn, the tool name, and the
\* outcome of tool.execute when the name is registered
DispatchRecord(tool_name, outcome) ==
    [ran |-> TRUE, turn |-> step_count, tool_name |-> tool_name,
     outcome |-> IF tool_name \in Tools THEN outcome ELSE [kind |-> "not_called"]]

\* Execute with the approval checkpoint placed after the dispatch
ExecuteBeforeApproval ==
    /\ pc = "executing"
    /\ \E outcome \in ToolOutcomes :
          /\ output' = Dispatch(ToolName(next_step), outcome)
          /\ dispatched' = DispatchRecord(ToolName(next_step), outcome)
    /\ pc' = IF auto_mode THEN "analyzing" ELSE "approval"
    /\ UNCHANGED <<memory, mem_call, calls, auto_mode, step_count, next_step,
                   analysis_result, result, error, repair, last_parse, confirm,
                   turn_memory, fix_result>>
    /\ UNCHANGED tool_vars

\* Execute without the try around tool.execute: what the tool raises ends
\* solve
ExecutePropagating ==
    /\ pc = "executing"
    /\ \E outcome \in ToolOutcomes :
          /\ dispatched' = DispatchRecord(ToolName(next_step), outcome)
          /\ IF ToolName(next_step) \in Tools /\ outcome.kind = "raise"
             THEN /\ Raise("TimeoutError")
                  /\ UNCHANGED output
             ELSE /\ output' = Dispatch(ToolName(next_step), outcome)
                  /\ pc' = "analyzing"
                  /\ UNCHANGED <<result, error>>
    /\ UNCHANGED <<memory, mem_call, calls, auto_mode, step_count, next_step,
                   analysis_result, repair, last_parse, confirm, turn_memory,
                   fix_result>>
    /\ UNCHANGED tool_vars

\* solve dispatches the action to its tool
Execute ==
    /\ pc = "executing"
    /\ \E outcome \in ToolOutcomes :
          /\ output' = Dispatch(ToolName(next_step), outcome)
          /\ dispatched' = DispatchRecord(ToolName(next_step), outcome)
    /\ pc' = "analyzing"
    /\ UNCHANGED <<memory, mem_call, calls, auto_mode, step_count, next_step,
                   analysis_result, result, error, repair, last_parse, confirm,
                   turn_memory, fix_result>>
    /\ UNCHANGED tool_vars

\* solve calls analyze_step_output and goes on to the flag check
Analyze ==
    /\ pc = "analyzing"
    /\ \E llm \in AnalysisReplies, compaction \in SolveCompactionReplies :
          LET outcome == analyze_step_output(get_summary(memory, TRUE), llm) IN
          CASE outcome.kind = "raise" ->
                  /\ Raise(outcome.exc)
                  /\ UNCHANGED <<memory, mem_call, calls, step_count, next_step,
                                 analysis_result, repair, last_parse, confirm,
                                 turn_memory>>
            [] outcome.kind = "repair" ->
                  /\ pc' = "repair"
                  /\ repair' = [for |-> "analysis", which |-> outcome.which,
                                func_name |-> outcome.func_name, tries |-> 0]
                  /\ UNCHANGED <<memory, mem_call, calls, step_count, next_step,
                                 analysis_result, result, error, last_parse,
                                 confirm, turn_memory>>
            [] outcome.kind = "return" ->
                  /\ Analysed(outcome.value, compaction)
                  /\ UNCHANGED repair
    /\ UNCHANGED <<auto_mode, output, dispatched, fix_result>>
    /\ UNCHANGED tool_vars

\* Workflow.confirm_flag: one answer of the user; then solve returns the flag
\* or goes on to the memory write
ConfirmFlag ==
    /\ pc = "confirming"
    /\ \E answer \in {"y", "n", "?"}, compaction \in SolveCompactionReplies :
          CASE answer = "y" ->
                  /\ confirm' = [confirm EXCEPT !.answer = "y"]
                  /\ Return(confirm.candidate)
                  /\ UNCHANGED <<memory, mem_call, calls, step_count, next_step,
                                 last_parse, turn_memory>>
            [] answer = "n" ->
                  /\ confirm' = [confirm EXCEPT !.answer = "n"]
                  /\ Record(analysis_result, compaction)
            [] OTHER ->
                  UNCHANGED <<confirm, pc, result, error, memory, mem_call, calls,
                              step_count, next_step, last_parse, turn_memory>>
    /\ UNCHANGED <<auto_mode, output, analysis_result, repair, dispatched,
                   fix_result>>
    /\ UNCHANGED tool_vars

\* Unparseable that takes every reply
UnparseableNever(text) == FALSE

\* the try of fix_json_with_llm fails: json.loads(fixed_json) raises
Unparseable(text) == text = NoneText \/ json_loads(text).exc # "None"

\* fix_json_with_llm: one round of its loop, and on its return the rest of its
\* caller
Repair ==
    /\ pc = "repair"
    /\ \E llm \in RepairReplies, compaction \in SolveCompactionReplies :
          IF llm.kind = "raise"
          THEN /\ Raise(llm.exc)
               /\ UNCHANGED <<memory, mem_call, calls, step_count, next_step,
                              analysis_result, repair, last_parse, confirm,
                              turn_memory, fix_result>>
          ELSE IF Unparseable(llm.text)
          THEN /\ repair.tries < MaxRepairTries
               /\ repair' = [repair EXCEPT !.tries = @ + 1]
               /\ UNCHANGED <<memory, mem_call, calls, step_count, next_step,
                              analysis_result, result, error, pc, last_parse,
                              confirm, turn_memory, fix_result>>
          ELSE /\ fix_result' = [returned |-> TRUE, text |-> llm.text]
               /\ IF repair.for = "analysis"
                  THEN IF llm.text = NoneText \/ json_loads(llm.text).exc # "None"
                       THEN \* result = json.loads(content) raises
                            /\ Raise(IF llm.text = NoneText THEN "TypeError"
                                     ELSE json_loads(llm.text).exc)
                            /\ UNCHANGED <<memory, mem_call, calls, step_count,
                                           next_step, analysis_result, repair,
                                           last_parse, confirm, turn_memory>>
                       ELSE /\ Analysed(json_loads(llm.text).value, compaction)
                            /\ repair' = NoRepair
                  ELSE LET outcome == AfterRepair(repair.which, repair.func_name,
                                                  llm.text) IN
                       /\ Requested(repair.for, outcome)
                       /\ last_parse' = [last_parse EXCEPT !.outcome = outcome,
                                                           !.repaired = TRUE]
                       /\ UNCHANGED <<memory, mem_call, calls, step_count,
                                      analysis_result, confirm, turn_memory>>
    /\ UNCHANGED <<auto_mode, output, dispatched>>
    /\ UNCHANGED tool_vars

Next == Generate \/ ManualApproval \/ Execute \/ Analyze \/ ConfirmFlag \/ Repair

Spec == SolveInit /\ [][Next]_vars

\* fix_json_with_llm leaves its loop: the completion raised or its reply parsed
RepairLeaves == Repair /\ pc' # "repair"

\* solve under the default compression_threshold
FairInit == SolveInit /\ memory.compression_threshold = DefaultThreshold

\* solve with a Judgment Client that, asked for a repair again and again,
\* eventually raises or returns text that parses
FairSpec == FairInit /\ [][Next]_vars /\ WF_vars(RepairLeaves)

(***************************************************************************)
(* CounterSpec: a Memory object with the default threshold, handed records *)
(* whose analysis carries success as true, as false, as null, or not at    *)
(* all.                                                                    *)
(***************************************************************************)

\* the values of "success" in the analysis of a record; "absent" for none
SuccessValues == {"true", "false", "null", "absent"}

\* the step records handed to add_step as the n-th call, by their success
AnalysedRecords(n) ==
    { [step |-> n, purpose |-> "list files", content |-> "ls -la",
       output |-> ShortOutput,
       analysis |-> IF v = "absent"
                    THEN [analysis |-> "nothing new"]
                    ELSE [analysis |-> "nothing new", success |-> v]] :
      v \in SuccessValues }

CounterInit ==
    /\ MemInit
    /\ memory.compression_threshold = DefaultThreshold

\* one add_step call with such a record
MemAddAnalysed ==
    /\ calls < MaxCalls
    /\ \E step \in AnalysedRecords(calls + 1),
          llm \in { [kind |-> "raise", exc |-> "APIConnectionError"],
                    [kind |-> "text", text |-> [kind |-> "json", value |-> GoodBlock]] } :
          LET r == add_step(memory, step, llm) IN
          /\ memory' = r.mem
          /\ mem_call' = CallRecord(memory, r, llm)
    /\ calls' = calls + 1
    /\ UNCHANGED solve_vars
    /\ UNCHANGED tool_vars

CounterNext == MemAddAnalysed \/ MemGetSummary

CounterSpec == CounterInit /\ [][CounterNext]_vars

(***************************************************************************)
(* FactsSpec: a Memory object with the default threshold whose steps each  *)
(* may bring a finding of their own, and the summaries asked of it.         *)
(***************************************************************************)

\* the step records handed to add_step as the n-th call: one without a
\* finding, one with the n-th finding
FindingRecords(n) ==
    { [step |-> n, purpose |-> "list files", content |-> "ls -la",
       output |-> ShortOutput,
       analysis |-> [analysis |-> "nothing new", success |-> "false"]],
      [step |-> n, purpose |-> "fetch page", content |-> "curl http://target/",
       output |-> LongOutput,
       analysis |-> [analysis |-> FindingTexts[n], success |-> "true"]] }

FactsInit == CounterInit

\* one add_step call; its compaction, if any, gets no reply
MemAddFinding ==
    /\ calls < MaxFindings
    /\ calls < Len(FindingTexts)
    /\ \E step \in FindingRecords(calls + 1) :
          LET llm == [kind |-> "raise", exc |-> "APIConnectionError"]
              r == add_step(memory, step, llm) IN
          /\ memory' = r.mem
          /\ mem_call' = CallRecord(memory, r, llm)
    /\ calls' = calls + 1
    /\ UNCHANGED solve_vars
    /\ UNCHANGED tool_vars

\* one get_summary call, with the text it returned
MemSummarise ==
    /\ LET r == get_summary(memory, TRUE) IN
          mem_call' = [op |-> "get_summary", exc |-> r.exc,
                       no_history |-> r.text = NoHistory,
                       text |-> r.text]
    /\ UNCHANGED <<memory, calls>>
    /\ UNCHANGED solve_vars
    /\ UNCHANGED tool_vars

FactsNext == MemAddFinding \/ MemSummarise

FactsSpec == FactsInit /\ [][FactsNext]_vars

(***************************************************************************)
(* PromptSpec: a Memory object of any threshold, with the step numbers of  *)
(* the records its compaction prompts have embedded so far kept in         *)
(* mem_call.                                                               *)
(***************************************************************************)

\* the step numbers embedded by the compactions before this call
Summarised ==
    IF "summarised" \in DOMAIN mem_call THEN mem_call.summarised ELSE {}

\* one add_step call, with the records its prompt embedded added to those
\* embedded before
MemAddPrompted ==
    /\ calls < MaxCalls
    /\ \E step \in StepRecords(calls + 1),
          llm \in { [kind |-> "raise", exc |-> "APIConnectionError"],
                    [kind |-> "text", text |-> [kind |-> "json", value |-> GoodBlock]] } :
          LET r == add_step(memory, step, llm) IN
          /\ memory' = r.mem
          /\ mem_call' =
                [op |-> "add_step", exc |-> r.exc, compressed |-> r.compressed,
                 pre_len |-> Len(memory.history) + 1,
                 summarised |-> Summarised
                     \cup { r.prompted[i].step : i \in 1..Len(r.prompted) }]
    /\ calls' = calls + 1
    /\ UNCHANGED solve_vars
    /\ UNCHANGED tool_vars

PromptSpec == MemInit /\ [][MemAddPrompted]_vars

(***************************************************************************)
(* ScheduleSpec: a Memory object of a threshold up to MaxScheduleThreshold *)
(* through a session of add_step calls.                                    *)
(***************************************************************************)
ScheduleInit ==
    /\ memory \in { NewMemory(t) : t \in 1..MaxScheduleThreshold }
    /\ mem_call = [op |-> "init", exc |-> "None"]
    /\ calls = 0
    /\ auto_mode = TRUE
    /\ pc = "idle"
    /\ step_count = 0
    /\ next_step = NoneValue
    /\ output = [base |-> "", arg |-> "", len |-> 0]
    /\ analysis_result = Unbound
    /\ result = "None"
    /\ error = "None"
    /\ repair = NoRepair
    /\ last_parse = NoParse
    /\ confirm = NoConfirm
    /\ turn_memory = memory
    /\ dispatched = NoDispatch
    /\ fix_result = NoFix
    /\ tool = NewTool("SSHShell", TRUE)
    /\ tool_result = NoToolCall

\* the n-th add_step call of the session; its compaction, if any, gets a
\* block or no reply
MemAddScheduled ==
    /\ calls < MaxScheduleCalls
    /\ \E step \in { r \in StepRecords(calls + 1) : r.content = "ls -la" },
          llm \in { [kind |-> "raise", exc |-> "APIConnectionError"],
                    [kind |-> "text", text |-> [kind |-> "json", value |-> GoodBlock]] } :
          LET r == add_step(memory, step, llm) IN
          /\ memory' = r.mem
          /\ mem_call' = CallRecord(memory, r, llm)
    /\ calls' = calls + 1
    /\ UNCHANGED solve_vars
    /\ UNCHANGED tool_vars

ScheduleSpec == ScheduleInit /\ [][MemAddScheduled]_vars

(***************************************************************************)
(* The tools (ctf_tool/ssh_shell.py, ctf_tool/python.py).  A tool object   *)
(* is [class, remote, session]: session is "active" while the transport    *)
(* of its SSH client is alive, "dropped" when it is not, "none" for a      *)
(* PythonTool that runs the code locally.  A call of execute meets a       *)
(* network net ("reachable" or "unreachable", for a reconnect) and a run   *)
(* of the command that goes through ("ok") or raises ("fails").  Its       *)
(* outcome is [kind |-> "return", stdout, stderr] or                       *)
(* [kind |-> "raise", exc, message].                                       *)
(***************************************************************************)

\* _is_connected
is_connected(t) == t.session = "active"

\* _connect: the tool it leaves, and the exception it raises
connect(t, net) ==
    IF net = "reachable"
    THEN [tool |-> [t EXCEPT !.session = "active"], exc |-> "None"]
    ELSE [tool |-> [t EXCEPT !.session = "dropped"], exc |-> "ConnectionError"]

\* SSHShell.execute and PythonTool._shell_execute, which are the same code
shell_execute(t, arguments, net, run) ==
    LET c == IF is_connected(t) THEN [tool |-> t, exc |-> "None"] ELSE connect(t, net)
        command == DictGet(arguments, "content", "")
    IN  IF c.exc # "None"                \* raised by _connect, before the try
        THEN [tool |-> c.tool,
              outcome |-> [kind |-> "raise", exc |-> c.exc,
                           message |-> "Failed to connect over SSH: timed out"]]
        ELSE IF command = ""
        THEN [tool |-> c.tool,
              outcome |-> [kind |-> "return", stdout |-> "",
                           stderr |-> "Error: no command content provided"]]
        ELSE IF run = "ok"
        THEN [tool |-> c.tool,
              outcome |-> [kind |-> "return", stdout |-> "uid=0(root)", stderr |-> ""]]
        ELSE [tool |-> c.tool,
              outcome |-> [kind |-> "return", stdout |-> "",
                           stderr |-> "Command execution error: channel closed"]]

\* PythonTool._execute_locally
execute_locally(t, content, run) ==
    IF run = "ok"
    THEN [tool |-> t, outcome |-> [kind |-> "return", stdout |-> "42", stderr |-> ""]]
    ELSE [tool |-> t, outcome |-> [kind |-> "return", stdout |-> "",
                                   stderr |-> "timed out after 30 seconds"]]

\* PythonTool._execute_remotely: upload, run, remove
execute_remotely(t, content, net, run) ==
    LET upload == shell_execute(t, [content |-> "cat > py_script.py"], net, run) IN
    IF upload.outcome.kind = "raise" THEN upload
    ELSE LET ran == shell_execute(upload.tool, [content |-> "python3 py_script.py"],
                                  net, run) IN
         IF ran.outcome.kind = "raise" THEN ran
         ELSE LET removed == shell_execute(ran.tool, [content |-> "rm -f py_script.py"],
                                           net, run) IN
              IF removed.outcome.kind = "raise" THEN removed
              ELSE [tool |-> removed.tool, outcome |-> ran.outcome]

\* PythonTool.execute
python_execute(t, arguments, net, run) ==
    IF t.remote
    THEN execute_remotely(t, DictGet(arguments, "content", ""), net, run)
    ELSE execute_locally(t, DictGet(arguments, "content", ""), run)

\* tool.execute(arguments), by the class of the tool
tool_execute(t, arguments, net, run) ==
    IF t.class = "SSHShell"
    THEN shell_execute(t, arguments, net, run)
    ELSE python_execute(t, arguments, net, run)

\* the arguments solve hands to execute
ToolArguments ==
    { ShellArgs, [purpose |-> "Execute action", content |-> ""] }

\* ToolSpec: a tool object and the calls of its execute
ToolInit ==
    /\ memory = NewMemory(DefaultThreshold)
    /\ mem_call = [op |-> "init", exc |-> "None"]
    /\ calls = 0
    /\ auto_mode = TRUE
    /\ pc = "idle"
    /\ step_count = 0
    /\ next_step = NoneValue
    /\ output = [base |-> "", arg |-> "", len |-> 0]
    /\ analysis_result = Unbound
    /\ result = "None"
    /\ error = "None"
    /\ repair = NoRepair
    /\ last_parse = NoParse
    /\ confirm = NoConfirm
    /\ turn_memory = memory
    /\ dispatched = NoDispatch
    /\ fix_result = NoFix
    /\ tool \in { NewTool("SSHShell", TRUE), NewTool("PythonTool", TRUE),
                   NewTool("PythonTool", FALSE) }
    /\ tool_result = NoToolCall

\* one call of execute
ToolExecute ==
    /\ tool_result.count < MaxToolCalls
    /\ \E arguments \in ToolArguments, net \in {"reachable", "unreachable"},
          run \in {"ok", "fails"} :
          LET r == tool_execute(tool, arguments, net, run) IN
          /\ tool' = r.tool
          /\ tool_result' = [count |-> tool_result.count + 1,
                             arguments |-> arguments,
                             session |-> tool.session, net |-> net,
                             outcome |-> r.outcome]
    /\ UNCHANGED <<mem_vars, solve_vars>>

\* the transport of the SSH client dies
SessionDrops ==
    /\ tool.session = "active"
    /\ tool' = [tool EXCEPT !.session = "dropped"]
    /\ UNCHANGED <<tool_result, mem_vars, solve_vars>>

ToolNext == ToolExecute \/ SessionDrops

ToolSpec == ToolInit /\ [][ToolNext]_vars

(***************************************************************************)
(* SSHShell.upload_folder (ctf_tool/ssh_shell.py).  The local tree is what *)
(* os.walk(local_path) yields: a sequence of [path, files], the root       *)
(* first (path "."), each directory after its parent.  What the call       *)
(* leaves is [kind, value, uploaded, remote_dirs, closed]: the files put   *)
(* as [dir, file], the remote directories seen to, and whether the SFTP    *)
(* channel was closed.                                                     *)
(***************************************************************************)

\* the directories of the trees of the model, in the order of os.walk
WalkPaths == <<".", "sub", "sub/deep", "sub/deep/img", "sub/deep/img/raw">>

FileNames == {"flag.txt", "notes.md"}

\* the trees of at most MaxDirs directories; none when local_path is no
\* directory
Walks ==
    UNION { [1..n -> SUBSET FileNames] : n \in 0..Min(MaxDirs, Len(WalkPaths)) }

\* os.walk(local_path) for the tree w
os_walk(w) == [i \in 1..Len(w) |-> [path |-> WalkPaths[i], files |-> w[i]]]

\* the success message of upload_folder
UploadSucceeded == "Successfully uploaded folder: ./attachments -> ."

\* SSHShell.upload_folder: the tool it leaves and what the call did; sftp
\* is "ok" or "fails" (an SFTP operation raises)
upload_folder(t, w, net, sftp) ==
    LET c == IF is_connected(t) THEN [tool |-> t, exc |-> "None"] ELSE connect(t, net)
        walk == os_walk(w)
    IN  IF c.exc # "None"                \* raised by _connect, before the try
        THEN [tool |-> c.tool,
              outcome |-> [kind |-> "raise", exc |-> c.exc, value |-> "None",
                           uploaded |-> {}, remote_dirs |-> {}, closed |-> FALSE]]
        ELSE IF sftp = "fails"
        THEN [tool |-> c.tool,
              outcome |-> [kind |-> "raise", exc |-> "IOError", value |-> "None",
                           uploaded |-> {}, remote_dirs |-> {}, closed |-> FALSE]]
        ELSE IF walk = <<>>              \* the loop body never runs
        THEN [tool |-> c.tool,
              outcome |-> [kind |-> "return", exc |-> "None", value |-> "None",
                           uploaded |-> {}, remote_dirs |-> {}, closed |-> FALSE]]
        ELSE \* sftp.close() and the return stand in the body of the loop over
             \* os.walk: the first directory is the only one it takes
             [tool |-> c.tool,
              outcome |-> [kind |-> "return", exc |-> "None",
                           value |-> UploadSucceeded,
                           uploaded |-> { [dir |-> walk[1].path, file |-> f] :
                                          f \in walk[1].files },
                           remote_dirs |-> { walk[1].path },
                           closed |-> TRUE]]

UploadInit ==
    /\ memory = NewMemory(DefaultThreshold)
    /\ mem_call = [op |-> "init", exc |-> "None"]
    /\ calls = 0
    /\ auto_mode = TRUE
    /\ pc = "idle"
    /\ step_count = 0
    /\ next_step = NoneValue
    /\ output = [base |-> "", arg |-> "", len |-> 0]
    /\ analysis_result = Unbound
    /\ result = "None"
    /\ error = "None"
    /\ repair = NoRepair
    /\ last_parse = NoParse
    /\ confirm = NoConfirm
    /\ turn_memory = memory
    /\ dispatched = NoDispatch
    /\ fix_result = NoFix
    /\ tool \in { [class |-> "SSHShell", remote |-> TRUE, session |-> x] :
                   x \in {"active", "dropped"} }
    /\ tool_result = NoToolCall

\* one call of upload_folder
UploadFolder ==
    /\ tool_result.count = 0
    /\ \E w \in Walks, net \in {"reachable", "unreachable"}, sftp \in {"ok", "fails"} :
          LET r == upload_folder(tool, w, net, sftp) IN
          /\ tool' = r.tool
          /\ tool_result' = [count |-> 1, op |-> "upload_folder", walk |-> os_walk(w),
                             outcome |-> r.outcome]
    /\ UNCHANGED <<mem_vars, solve_vars>>

UploadSpec == UploadInit /\ [][UploadFolder]_vars

(***************************************************************************)
(* The properties.                                                         *)
(***************************************************************************)
Threshold == memory.compression_threshold
Blocks == memory.compressed_memory
LastBlock == Blocks[Len(Blocks)]
LastRecord == memory.history[Len(memory.history)]

\* the last call on the memory was an add_step that compacted
Compacted == mem_call.op = "add_step" /\ mem_call.compressed

\* a canonical action: a tool name, and arguments with purpose and content
IsCanonical(step) ==
    /\ "tool_name" \in DOMAIN step
    /\ "arguments" \in DOMAIN step
    /\ {"purpose", "content"} \subseteq DOMAIN step.arguments

\* a free-text reply that parses as a JSON document without a usable
\* "tool_calls" array
WithoutToolCalls(response) ==
    /\ response.tool_calls = <<>>
    /\ response.content.kind = "json"
    /\ \/ "tool_calls" \notin DOMAIN response.content.value
       \/ response.content.value.tool_calls = <<>>

\* the shapes of a reply C1 names: this turn's action reply has no usable
\* "tool_calls", or was normalised to the void action, or the turn's analysis
\* is JSON that is not an object
ReplyShapeOfC1 ==
    \/ last_parse.called /\ WithoutToolCalls(last_parse.response)
    \/ last_parse.called /\ last_parse.outcome = [kind |-> "return", value |-> EmptyDict]
    \/ analysis_result # Unbound /\ ~IsDict(analysis_result)

\* C1: solve ends only by returning a confirmed flag, "Solving aborted" or
\* "Flag not found: terminated early"; no exception other than one raised by
\* a completion call ends it after a reply without "tool_calls", a void
\* action or an analysis that is no JSON object.
C1_EndsOnlyThreeWays ==
    /\ (pc = "raised" /\ ReplyShapeOfC1) => error = "APIConnectionError"
    /\ pc = "done" =>
          \/ result \in {"Solving aborted", "Flag not found: terminated early"}
          \/ confirm.asked /\ confirm.answer = "y" /\ result = confirm.candidate

\* C2: the generation loop of solve is left (to the approval or to the
\* dispatch) only with a canonical action, never with a void one.
C2_GeneratingLeftOnlyWithAction ==
    [][(pc = "generating" /\ pc' \in {"approval", "executing"})
          => IsCanonical(next_step')]_vars

\* C3: on a free-text reply whose JSON document has no "tool_calls" array, or
\* an empty one, parse_tool_response returns the void result: it does not
\* raise and returns no record with a tool name.
C3_NoToolCallsIsVoid ==
    (last_parse.called /\ WithoutToolCalls(last_parse.response))
        => last_parse.outcome = [kind |-> "return", value |-> EmptyDict]

\* C4: when parse_tool_response called the repair and the repair returned,
\* parse_tool_response returns a canonical record with purpose and content.
C4_RepairedReplyIsCanonical ==
    (last_parse.called /\ last_parse.repaired)
        => /\ last_parse.outcome.kind = "return"
           /\ IsCanonical(last_parse.outcome.value)

\* C5 as stated: when the history is longer than compression_threshold after
\* one add_step, it is not after the next add_step, whatever the threshold.
C5_AboveThresholdForOneCallOnly ==
    [][(mem_call'.op = "add_step" /\ calls' = calls + 1
        /\ Len(memory.history) > Threshold)
          => Len(memory'.history) <= Threshold]_vars

\* C5 as amended: with compression_threshold of at least 4, the number of
\* records a compaction retains, the history is never longer than the
\* threshold once add_step has returned; with a smaller threshold it is
\* never longer than 4; and it is at most 4 after every compaction.
C5_BoundedFromFourOn ==
    /\ Threshold >= KeepLast => Len(memory.history) <= Threshold
    /\ Threshold < KeepLast => Len(memory.history) <= KeepLast
    /\ Compacted => Len(memory.history) = Min(KeepLast, mem_call.pre_len)

\* C5: an add_step compacted under a threshold of at least 4 and dropped records
C5_Witness ==
    Compacted /\ Threshold >= KeepLast /\ mem_call.pre_len > Len(memory.history)

\* the compaction of the last add_step truncated the history and appended
\* exactly one block, which carries the length the history had
OneBlockAndTruncated ==
    /\ Len(Blocks) = mem_call.pre_blocks + 1
    /\ LastBlock.source_steps = mem_call.pre_len
    /\ Len(memory.history) = Min(KeepLast, mem_call.pre_len)
    /\ mem_call.exc = "None"

C7_AddStepNeverRaises ==
    mem_call.op = "add_step" =>
        /\ mem_call.exc = "None"
        /\ memory.history # <<>>
        /\ LastRecord.step = calls
        /\ Len(memory.history) = IF mem_call.compressed
                                 THEN Min(KeepLast, mem_call.pre_len)
                                 ELSE mem_call.pre_len
        /\ mem_call.compressed => Len(Blocks) > mem_call.pre_blocks

\* C7: an add_step whose compaction got JSON that is not an object, and one
\* whose completion call raised, both with records to drop
C7_Witness ==
    /\ Compacted
    /\ mem_call.pre_len > KeepLast
    /\ \/ mem_call.llm.kind = "raise" /\ mem_call.llm.exc = "APIConnectionError"
       \/ /\ mem_call.llm.kind = "text"
          /\ mem_call.llm.text.kind = "json"
          /\ ~IsDict(mem_call.llm.text.value)

\* C8: get_summary returns a text and does not raise, whatever the stored
\* blocks hold.
C8_GetSummaryNeverRaises ==
    mem_call.op = "get_summary" => mem_call.exc = "None"

\* C9: solve returns a flag only when this turn's analysis reported
\* flag_found and the confirmation callback accepted that very candidate;
\* the turn then wrote nothing to the memory; and an accepted candidate is
\* returned whatever the analysis says about terminate.
C9_FlagOnlyWhenConfirmed ==
    /\ (pc = "done"
        /\ result \notin {"Solving aborted", "Flag not found: terminated early"})
          => /\ IsDict(analysis_result)
             /\ "flag_found" \in DOMAIN analysis_result
             /\ Truthy(analysis_result.flag_found)
             /\ result = DictGet(analysis_result, "flag", "")
             /\ confirm.asked /\ confirm.answer = "y"
             /\ confirm.candidate = result
             /\ memory = turn_memory
             /\ calls = step_count - 1
    /\ (confirm.asked /\ confirm.answer = "y")
          => pc = "done" /\ result = confirm.candidate

\* C9: a confirmed flag returned in a turn whose analysis also says terminate
C9_Witness ==
    /\ pc = "done" /\ result = "flag{b}"
    /\ Truthy(analysis_result.terminate)
    /\ step_count > 1

\* C10: when the callback rejects the candidate, solve writes exactly one
\* record for the turn (purpose, content, output, analysis) and then goes on
\* to the next turn's generation, unless the analysis says terminate.
C10_RejectedFlagIsRecorded ==
    [][(pc = "confirming" /\ confirm'.answer = "n")
          => /\ calls' = calls + 1
             /\ mem_call'.op = "add_step"
             /\ mem_call'.pre_len = Len(memory.history) + 1
             /\ memory'.history # <<>>
             /\ memory'.history[Len(memory'.history)] =
                    [step |-> step_count,
                     purpose |-> DictGet(Arguments(next_step), "purpose", "unspecified"),
                     content |-> Content(next_step),
                     output |-> output,
                     analysis |-> analysis_result]
             /\ IF TerminateAdvised(analysis_result)
                THEN pc' = "done" /\ result' = "Flag not found: terminated early"
                ELSE pc' = "generating" /\ step_count' = step_count + 1]_vars

\* C10: the turn after a rejected candidate has begun
C10_Witness ==
    /\ confirm.asked /\ confirm.answer = "n"
    /\ pc = "generating"
    /\ step_count = 2 /\ calls = 1

\* solve dispatched an action to a tool in the turn it stands in
DispatchedThisTurn == dispatched.ran /\ dispatched.turn = step_count

\* C11: solve leaves the approval checkpoint for its end only by returning
\* "Solving aborted"; it returns that only from the checkpoint of manual mode,
\* and then no tool was run in the turn and the memory (history, key facts,
\* blocks, failure counters) is what it was when the turn began.
C11_AbortLeavesMemoryAlone ==
    [][/\ (pc = "approval" /\ pc' = "done") => result' = "Solving aborted"
       /\ (pc' = "done" /\ pc # "done" /\ result' = "Solving aborted")
            => /\ pc = "approval" /\ ~auto_mode
               /\ memory' = turn_memory /\ memory' = memory
               /\ calls' = step_count - 1
               /\ output' = output /\ dispatched' = dispatched
               /\ ~DispatchedThisTurn']_vars

\* C11: an abort in the second turn, with a record of the first in the memory
C11_Witness ==
    /\ pc = "done" /\ result = "Solving aborted"
    /\ step_count = 2
    /\ memory.history # <<>> /\ memory = turn_memory
    /\ dispatched.ran /\ dispatched.turn = 1

\* C12: the dispatch always goes on to the analysis and ends solve in no way;
\* when the registered tool's execute raised, the output is "Tool execution
\* error: " followed by the error text; when the name is not registered, it
\* is the not-found message naming the tool.
C12_ToolFailureIsOutput ==
    [][pc = "executing" =>
         /\ pc' = "analyzing"
         /\ error' = "None" /\ result' = "None"
         /\ dispatched'.ran /\ dispatched'.turn = step_count
         /\ dispatched'.tool_name = DictGet(next_step, "tool_name", "None")
         /\ dispatched'.outcome.kind = "raise" =>
               /\ dispatched'.tool_name \in Tools
               /\ output'.base = "Tool execution error: "
               /\ output'.arg = dispatched'.outcome.message
               /\ output'.len = 22 + TextLen(dispatched'.outcome.message)
         /\ dispatched'.tool_name \notin Tools =>
               /\ dispatched'.outcome.kind = "not_called"
               /\ output'.base = "Error: tool '' was not found"
               /\ output'.arg = dispatched'.tool_name
               /\ output'.len = 28 + TextLen(dispatched'.tool_name)]_vars

\* C12: the tool raised in the second turn and the analysis is next; in the
\* first turn the tool named was not registered
C12_Witness ==
    /\ pc = "analyzing" /\ step_count = 2
    /\ DispatchedThisTurn /\ dispatched.outcome.kind = "raise"
    /\ output.base = "Tool execution error: " /\ output.arg = "timed out"
    /\ memory.history # <<>>
    /\ memory.history[1].output.base = "Error: tool '' was not found"

\* C13: on a fresh Memory with compression_threshold T, each of the first
\* T-1 add_step calls returns without a compaction (no block, every record
\* kept), and the T-th makes one compaction, on a history of T records: every
\* block it stores records source_steps = T.
C13_FirstCompactionAtThreshold ==
    (mem_call.op = "add_step" /\ calls <= Threshold) =>
        IF calls < Threshold
        THEN /\ ~mem_call.compressed
             /\ Blocks = <<>>
             /\ Len(memory.history) = calls
        ELSE /\ mem_call.compressed
             /\ mem_call.pre_blocks = 0 /\ mem_call.pre_len = Threshold
             /\ Blocks # <<>>
             /\ \A i \in 1..Len(Blocks) : Blocks[i].source_steps = Threshold

\* C13: the fifth add_step under the threshold 5 compacted into a block of
\* the reply's fields
C13_Witness ==
    /\ Compacted /\ Threshold = DefaultThreshold /\ calls = DefaultThreshold
    /\ Len(Blocks) = 1
    /\ "key_findings" \in DOMAIN LastBlock
    /\ LastBlock.source_steps = DefaultThreshold

\* C14: no step of the memory removes an entry of failed_attempts or lowers
\* its count.
C14_FailureCountersNeverDecrease ==
    [][\A k \in DOMAIN memory.failed_attempts :
          /\ k \in DOMAIN memory'.failed_attempts
          /\ memory'.failed_attempts[k] >= memory.failed_attempts[k]]_vars

\* C14: a content counted by add_step and again by a compaction that
\* truncated the history
C14_Witness ==
    /\ Compacted /\ mem_call.pre_len > Len(memory.history)
    /\ mem_call.llm.kind = "text" /\ mem_call.llm.text = [kind |-> "json", value |-> GoodBlock]
    /\ "ls -la" \in DOMAIN memory.failed_attempts
    /\ memory.failed_attempts["ls -la"] >= 3

\* len() of an excerpt: the characters kept and the ellipsis
ExcerptLen(excerpt) == excerpt.len + (IF excerpt.ellipsis THEN EllipsisLen ELSE 0)

\* the "command" entry of key_facts
CommandFact ==
    memory.key_facts[CHOOSE i \in 1..Len(memory.key_facts) :
                        memory.key_facts[i].kind = "command"]

\* output lengths around the limit
OutputLengths == {0, 1, 255, 256, 257, 258, 259, 260, 300, 512, 1000}

\* what C15 says of the excerpt stored for the output out
ExcerptAsSpecified(out, excerpt) ==
    /\ excerpt.base = out.base /\ excerpt.arg = out.arg
    /\ IF out.len > OutputSummaryLimit
       THEN /\ excerpt.len = OutputSummaryLimit /\ excerpt.ellipsis
            /\ ExcerptLen(excerpt) <= 259
       ELSE /\ excerpt.len = out.len /\ ~excerpt.ellipsis
            /\ ExcerptLen(excerpt) = out.len

\* C15: after add_step the result text of the "command" key fact is the
\* record's output unchanged when that has at most 256 characters, and its
\* first 256 characters and a three-character ellipsis, 259 characters at
\* most, when it is longer; so for every output length around the limit.
C15_CommandFactExcerptBounded ==
    /\ mem_call.op = "add_step" =>
          /\ \E i \in 1..Len(memory.key_facts) : memory.key_facts[i].kind = "command"
          /\ CommandFact.command = LastRecord.content
          /\ ExcerptAsSpecified(LastRecord.output, CommandFact.result)
    /\ \A n \in OutputLengths :
          LET out == [base |-> "<html>...", arg |-> "", len |-> n]
              step == [content |-> "curl http://target/", output |-> out]
              facts == extract_key_facts(memory.key_facts, step)
          IN  \E i \in 1..Len(facts) :
                 /\ facts[i].kind = "command"
                 /\ ExcerptAsSpecified(out, facts[i].result)

\* C15: the last add_step stored the excerpt of an output longer than 256
\* characters over an earlier "command" fact
C15_Witness ==
    /\ mem_call.op = "add_step" /\ calls >= 2
    /\ LastRecord.output.len > OutputSummaryLimit
    /\ CommandFact.result.ellipsis
    /\ ExcerptLen(CommandFact.result) = 259

\* the payload parse_tool_response parses is valid JSON: the arguments of
\* the first structured invocation, or else the message's free text
PayloadIsJson(response) ==
    IF response.tool_calls # <<>>
    THEN response.tool_calls[1].arguments.kind = "json"
    ELSE response.content.kind = "json"

\* C16: a call of parse_tool_response on a reply whose payload is valid JSON
\* does not call fix_json_with_llm: solve is not in the repair loop on its
\* behalf and the call's outcome does not come out of a repair.
C16_ValidJsonIsNotRepaired ==
    (last_parse.called /\ PayloadIsJson(last_parse.response)) =>
        /\ ~last_parse.repaired
        /\ last_parse.outcome.kind # "repair"
        /\ ~(pc = "repair" /\ repair.for \in {"generate", "reflect"})

\* C16: a free-text canonical document was normalised to its action, and a
\* record of the first turn shows the same for a structured invocation
C16_Witness ==
    /\ last_parse.called /\ ~last_parse.repaired
    /\ last_parse.response.tool_calls = <<>>
    /\ last_parse.response.content = JsonText(ToolDocument)
    /\ last_parse.outcome.kind = "return"
    /\ pc = "executing" /\ next_step.tool_name = "nmap_scan"
    /\ memory.history # <<>> /\ memory.history[1].content = "ls -la"

\* arguments as a model may send them: complete, empty, with one of the two
\* keys, with further keys, with a null purpose
ArgumentSamples ==
    { ShellArgs,
      EmptyDict,
      [content |-> "id"],
      [purpose |-> "who am I"],
      [purpose |-> "null", content |-> "id", timeout |-> "30"] }

\* the record is canonical and built from the arguments args: with the
\* defaults where a key is missing and every value of args as it was
FilledFrom(record, args) ==
    /\ IsCanonical(record)
    /\ DOMAIN record.arguments = DOMAIN args \cup {"purpose", "content"}
    /\ \A k \in DOMAIN args : record.arguments[k] = args[k]
    /\ "purpose" \notin DOMAIN args => record.arguments.purpose = "Execute action"
    /\ "content" \notin DOMAIN args => record.arguments.content = ""

\* the arguments the reply of last_parse carried, when no repair replaced them
SentArguments ==
    IF last_parse.response.tool_calls # <<>>
    THEN last_parse.response.tool_calls[1].arguments.value
    ELSE DictGet(last_parse.response.content.value.tool_calls[1],
                 "arguments", EmptyDict)

\* C17: a record parse_tool_response returns, unless it is the void one, has
\* a tool_name and arguments with purpose and content, the defaults
\* "Execute action" and "" standing for a missing key and every value sent
\* left as it was; so for the reply solve got and for every sample of
\* arguments, sent in a structured invocation or in a free-text document.
C17_ReturnedRecordIsComplete ==
    /\ (last_parse.called /\ last_parse.outcome.kind = "return"
        /\ last_parse.outcome.value # EmptyDict) =>
          /\ IsCanonical(last_parse.outcome.value)
          /\ ~last_parse.repaired =>
                FilledFrom(last_parse.outcome.value, SentArguments)
    /\ \A args \in ArgumentSamples :
          LET direct == parse_tool_response(
                  [tool_calls |-> <<[name |-> "execute_shell_command",
                                     arguments |-> JsonText(args)]>>,
                   content |-> NoneText])
              free == parse_tool_response(
                  [tool_calls |-> <<>>,
                   content |-> JsonText([tool_calls |->
                       <<[name |-> "execute_python_code", arguments |-> args]>>])])
          IN  /\ direct.kind = "return"
              /\ direct.value.tool_name = "execute_shell_command"
              /\ FilledFrom(direct.value, args)
              /\ free.kind = "return"
              /\ free.value.tool_name = "execute_python_code"
              /\ FilledFrom(free.value, args)

\* C17: solve got a free-text document whose tool call has no arguments and
\* goes on with the defaults; the first turn's invocation sent both keys
C17_Witness ==
    /\ last_parse.called /\ ~last_parse.repaired
    /\ last_parse.outcome.kind = "return"
    /\ last_parse.response.content = JsonText(ToolDocument)
    /\ SentArguments = EmptyDict
    /\ next_step = last_parse.outcome.value
    /\ next_step.arguments = [purpose |-> "Execute action", content |-> ""]
    /\ memory.history # <<>> /\ memory.history[1].purpose = "list files"

\* C18: a round of fix_json_with_llm whose reply does not parse changes
\* nothing but the count of rounds, and the same text is submitted again; the
\* loop is left only by the completion's exception or by returning a reply,
\* which parses as JSON; and when the client eventually raises or returns
\* text that parses, the loop is left.
C18_RepairReturnsFirstParseableReply ==
    /\ [][pc = "repair" =>
            IF pc' = "repair"
            THEN /\ repair' = [repair EXCEPT !.tries = @ + 1]
                 /\ UNCHANGED <<fix_result, memory, next_step, analysis_result,
                                last_parse, result, error>>
            ELSE \/ /\ pc' = "raised" /\ error' = "APIConnectionError"
                    /\ fix_result' = fix_result
                 \/ /\ fix_result'.returned
                    /\ fix_result'.text \in {r.text : r \in {x \in RepairReplies : x.kind = "text"}}
                    /\ fix_result'.text.kind = "json"
                    /\ json_loads(fix_result'.text).exc = "None"]_vars
    /\ (pc = "repair") ~> (pc # "repair")

\* C18: fix_json_with_llm returned a reply that parsed and its caller went on
\* with the repaired document
C18_Witness ==
    /\ fix_result.returned
    /\ fix_result.text = JsonText(ToolDocument)
    /\ pc \in {"executing", "approval"}
    /\ last_parse.called /\ last_parse.repaired

\* C19: every call of execute returns a pair of strings and raises nothing,
\* a dropped session whose reconnect fails included.
C19_ExecuteNeverRaises ==
    tool_result.count > 0 =>
        /\ tool_result.outcome.kind = "return"
        /\ tool_result.outcome.stdout \in STRING
        /\ tool_result.outcome.stderr \in STRING

\* C20: get_summary returns "No history" exactly when nothing has been
\* recorded yet: it is what a call before the first add_step returns, and
\* after the first add_step no call returns it again, because the active
\* history is never emptied, whatever add_step and compaction did.
C20_NoHistoryOnlyBeforeFirstStep ==
    /\ calls > 0 => memory.history # <<>>
    /\ mem_call.op = "get_summary" /\ calls = 0 =>
            mem_call.exc = "None" /\ mem_call.no_history
    /\ mem_call.op = "get_summary" /\ mem_call.exc = "None" /\ calls > 0 =>
            ~mem_call.no_history

\* a summary returned after a compaction, which is not the sentinel
C20_Witness ==
    /\ mem_call.op = "get_summary"
    /\ mem_call.exc = "None"
    /\ ~mem_call.no_history
    /\ memory.compressed_memory # <<>>
    /\ Len(memory.history) < calls

\* the completion call of the last compaction returned text that parses as a
\* JSON object
ParsedObject ==
    /\ Compacted
    /\ mem_call.llm.kind = "text"
    /\ mem_call.llm.text.kind = "json"
    /\ IsDict(mem_call.llm.text.value)

\* compressed_data["source_steps"] = n
Stamped(data, n) ==
    [k \in DOMAIN data \cup {"source_steps"} |->
        IF k = "source_steps" THEN n ELSE data[k]]

\* C21: a compaction whose reply parses as a JSON object, with or without
\* the four block fields, appends exactly one block: the parsed object with
\* source_steps set to the length the history had before the truncation.
C21_ParsedObjectIsTheOneBlock ==
    ParsedObject =>
        /\ Len(Blocks) = mem_call.pre_blocks + 1
        /\ LastBlock = Stamped(mem_call.llm.text.value, mem_call.pre_len)

\* C22: a compaction of a history of n >= 1 records leaves exactly the last
\* min(4, n) of them, in their order and unmodified, so between 1 and 4
\* records, whatever the completion call did.
C22_CompactionKeepsTheLastFour ==
    [][(mem_call'.op = "add_step" /\ calls' = calls + 1 /\ mem_call'.compressed)
          => /\ \E step \in StepRecords(calls') :
                    memory'.history =
                        LastN(Append(memory.history, step),
                              Min(KeepLast, Len(memory.history) + 1))
             /\ Len(memory'.history) >= 1
             /\ Len(memory'.history) <= KeepLast]_vars

\* a compaction of five records whose completion call raised kept the
\* second to the fifth of them
C22_Witness ==
    /\ Compacted
    /\ mem_call.llm.kind = "raise"
    /\ mem_call.pre_len = KeepLast + 1
    /\ Len(memory.history) = KeepLast
    /\ \A i \in 1..KeepLast : memory.history[i].step = calls - KeepLast + i

\* C23: for every compaction and every compression_threshold, the records
\* the prompt embeds are the records of the active history at that moment,
\* so their number equals the source_steps of the block stored.
C23_PromptEmbedsTheHistory ==
    Compacted =>
        /\ mem_call.prompted =
               [i \in 1..mem_call.pre_len |-> calls - mem_call.pre_len + i]
        /\ \A i \in mem_call.pre_blocks + 1 .. Len(Blocks) :
               Blocks[i].source_steps = Len(mem_call.prompted)

\* C24: add_step adds exactly 1 to the failure counter of the record's
\* content if and only if the record's analysis carries success equal to
\* false; when success is true, absent or a non-boolean such as null, the
\* step changes no counter (a compaction whose call returned may).
C24_CountedOnlyWhenExplicitlyFalse ==
    [][(/\ mem_call'.op = "add_step" /\ calls' = calls + 1
        /\ mem_call'.compressed => mem_call'.llm.kind = "raise")
          => LET step == memory'.history[Len(memory'.history)] IN
             IF "success" \in DOMAIN step.analysis /\ step.analysis.success = "false"
             THEN memory'.failed_attempts =
                      Increment(memory.failed_attempts, step.content)
             ELSE memory'.failed_attempts = memory.failed_attempts]_vars

\* C25: whatever the reply of the analysis call, what analyze_step_output
\* hands back to solve is a mapping, never a value on which the flag check
\* and the terminate check fail.
C25_AnalysisIsAMapping ==
    analysis_result # Unbound => IsDict(analysis_result)

\* C26: in manual mode an approve choice dispatches a canonical action, the
\* latest revision or else the original proposal; a revision that produces
\* no action leaves solve at the approval with the action it had, and never
\* turns the action to approve into an empty one.
C26_ApproveDispatchesAnAction ==
    /\ [][(pc = "approval" /\ pc' = "approval" /\ IsCanonical(next_step))
             => IsCanonical(next_step')]_vars
    /\ [][(pc = "approval" /\ pc' = "executing")
             => IsCanonical(next_step')]_vars

\* C27: a tool's execute is called only in the dispatch; in manual mode the
\* dispatch is entered only from the approval checkpoint of the same turn,
\* by the approve choice; in automatic mode the checkpoint is never entered
\* and every generated action goes from the generation to the dispatch.
C27_DispatchOnlyAfterApproval ==
    /\ [][(dispatched' # dispatched) => pc = "executing" /\ dispatched'.turn = step_count]_vars
    /\ [][(pc' = "executing" /\ pc # "executing" /\ ~auto_mode)
             => pc = "approval" /\ step_count' = step_count]_vars
    /\ [](auto_mode => pc # "approval")
    /\ [][(auto_mode /\ pc \in {"generating", "repair"}
            /\ next_step = NoneValue /\ next_step' # NoneValue)
             => pc' = "executing"]_vars
    /\ [][(pc' = "executing" /\ pc # "executing" /\ auto_mode)
             => pc \in {"generating", "repair"}]_vars

\* in manual mode a tool ran in the second turn, after its approval
C27_Witness ==
    /\ ~auto_mode
    /\ pc = "analyzing"
    /\ step_count = 2
    /\ DispatchedThisTurn
    /\ dispatched.outcome.kind = "return"

TerminatedEarly == "Flag not found: terminated early"

\* C28: when the turn's analysis says terminate and no flag is confirmed in
\* the turn, solve writes the turn's record to the memory, compaction
\* included, and returns "Flag not found: terminated early" in the same
\* step; it returns that in no other case, and nothing happens after it.
C28_RecordedBeforeEarlyReturn ==
    /\ [][(pc \in {"analyzing", "repair", "confirming"}
            /\ pc' \in {"generating", "done"}
            /\ IsDict(analysis_result') /\ TerminateAdvised(analysis_result')
            /\ ~(confirm'.asked /\ confirm'.answer = "y"))
             => pc' = "done" /\ result' = TerminatedEarly]_vars
    /\ [][(pc' = "done" /\ pc # "done" /\ result' = TerminatedEarly)
             => /\ TerminateAdvised(analysis_result')
                /\ ~(confirm'.asked /\ confirm'.answer = "y")
                /\ calls' = calls + 1
                /\ mem_call'.op = "add_step" /\ mem_call'.exc = "None"
                /\ mem_call'.pre_len = Len(memory.history) + 1
                /\ mem_call'.compressed
                      = (Len(memory.history) + 1 >= memory.compression_threshold)
                /\ memory'.history[Len(memory'.history)] =
                       [step |-> step_count,
                        purpose |-> DictGet(Arguments(next_step), "purpose", "unspecified"),
                        content |-> Content(next_step),
                        output |-> output,
                        analysis |-> analysis_result']]_vars
    /\ [][pc # "done"]_vars

\* an early return in the second turn, whose record triggered a compaction
C28_Witness ==
    /\ pc = "done" /\ result = TerminatedEarly
    /\ step_count = 2 /\ calls = 2
    /\ Compacted
    /\ memory.history[Len(memory.history)].step = 2

\* C29: the sequence of blocks only grows at its tail: what it was before a
\* call is a prefix of what it is after, so no block is removed, reordered
\* or modified; and the records an add_step leaves before the one it
\* added are the latest ones it found, unchanged, while get_summary
\* changes none.
C29_BlocksAndRecordsAreImmutable ==
    [][/\ Len(memory'.compressed_memory) >= Len(Blocks)
       /\ SubSeq(memory'.compressed_memory, 1, Len(Blocks)) = Blocks
       /\ IF calls' = calls + 1
          THEN /\ memory'.history # <<>>
               /\ SubSeq(memory'.history, 1, Len(memory'.history) - 1)
                     = LastN(memory.history, Len(memory'.history) - 1)
          ELSE memory'.history = memory.history]_vars

\* a second compaction, which found a block stored and dropped records
C29_Witness ==
    /\ Compacted
    /\ mem_call.pre_blocks >= 1
    /\ Len(Blocks) > mem_call.pre_blocks
    /\ mem_call.pre_len > KeepLast
    /\ Len(memory.history) = KeepLast

\* C30: after add_step calls whose records carry content and output, the
\* key-facts section of get_summary() shows the "command" fact of the most
\* recent step, whatever the number of "finding" facts collected.
C30_SummaryShowsTheCommandFact ==
    (mem_call.op = "get_summary" /\ mem_call.exc = "None" /\ calls > 0) =>
        \E i \in 1..Len(mem_call.text) :
            /\ mem_call.text[i].part = "fact"
            /\ mem_call.text[i].fact.kind = "command"
            /\ mem_call.text[i].fact.command = LastRecord.content

\* the step numbers of the records in the active history
ActiveSteps == { memory.history[i].step : i \in 1..Len(memory.history) }

\* C31: no record leaves the active history without having been embedded in
\* the prompt of a compaction, the one that discards it or an earlier one,
\* whatever the threshold and the add_step calls.
C31_DiscardedRecordsWereSummarised ==
    \A n \in 1..calls : n \notin ActiveSteps => n \in Summarised

\* under a threshold below 4 the first two records have been discarded, by
\* compactions whose prompts did not embed them
C31_Witness ==
    /\ Threshold < KeepLast
    /\ calls = KeepLast + 2
    /\ ActiveSteps = 3..calls
    /\ {1, 2} \subseteq Summarised

\* the schedule of C32 for threshold t: whether the n-th add_step compacts
Scheduled(t, n) ==
    IF t > KeepLast
    THEN n >= t /\ (n - t) % (t - KeepLast) = 0
    ELSE n >= t

\* C32: with four records retained by each compaction, the n-th add_step
\* of a session compacts if and only if, for a threshold T >= 5, n >= T and
\* n - T is a multiple of T - 4, and for T <= 4, n >= T.
C32_CompactionSchedule ==
    mem_call.op = "add_step" =>
        (mem_call.compressed <=> Scheduled(Threshold, calls))

\* under threshold 6 the eighth add_step makes the second compaction, and
\* under threshold 7 the tenth does
C32_Witness ==
    /\ Compacted
    /\ mem_call.pre_blocks = 1
    /\ \/ Threshold = 6 /\ calls = 8
       \/ Threshold = 7 /\ calls = 10

\* C33: when upload_folder returns its success message, every file of every
\* directory of the tree has been put, under the matching remote directory,
\* and the SFTP channel is closed.
C33_UploadsTheWholeTree ==
    (tool_result.count > 0 /\ tool_result.outcome.value = UploadSucceeded) =>
        /\ tool_result.outcome.uploaded =
               UNION { { [dir |-> tool_result.walk[i].path, file |-> f] :
                         f \in tool_result.walk[i].files } :
                       i \in 1..Len(tool_result.walk) }
        /\ tool_result.outcome.remote_dirs =
               { tool_result.walk[i].path : i \in 1..Len(tool_result.walk) }
        /\ tool_result.outcome.closed

====
